---- MODULE Spec2Model ----
(***************************************************************************)
(* The validator of bin/cli/src/validate.rs: the proposal loop             *)
(* (handle_proposals), the proof loop (handle_proofs), the duplex channel  *)
(* between them, and the part of the L1 chain both of them read and write. *)
(***************************************************************************)
EXTENDS Integers, Sequences, FiniteSets, TLC

VARIABLES
    games,              \* L1: the factory's games, entry f+1 is factory index f
    otherTx,            \* L1: transactions other parties have sent so far
    epc,                \* handle_proposals: where the loop stands
    proposal_tree,      \* handle_proposals: Vec<Proposal>
    proposal_index,     \* handle_proposals: HashMap factory index -> local index
    search_start_index, \* handle_proposals: the scan watermark
    game_count,         \* handle_proposals: gameCount() read at the top of the pass
    factory_index,      \* handle_proposals: the for loop's variable
    pending,            \* handle_proposals: the value held across an await
    toProver,           \* channel, Engine -> Worker
    toEngine,           \* channel, Worker -> Engine
    wpc,                \* handle_proofs: where the loop stands
    wjob,               \* handle_proofs: the request (then the proof) in hand
    files,              \* the receipt files in the working directory
    proving_task,       \* handle_proofs: how the last kailua-host run ended
    validate_pc,        \* validate(): awaiting try_join!, or returned
    nChallenge,         \* history: challenge() transactions sent, per factory index
    nProve,             \* history: prove() transactions sent, per factory index
    nRequest,           \* history: Message::Proposal sent, per local index
    nVisit,             \* history: runs of the for loop's body, per factory index
    nTaken,             \* history: Message::Proof received, per local index
    proveArgs,          \* history: the last prove() transaction, per factory index
    seen                \* history: what the chain answered when an entry was inspected

chainVars   == <<games, otherTx>>
engineVars  == <<epc, proposal_tree, proposal_index, search_start_index,
                 game_count, factory_index, pending>>
workerVars  == <<wpc, wjob, files, proving_task>>
historyVars == <<nChallenge, nProve, nRequest, nVisit, nTaken, proveArgs, seen>>
vars == <<games, otherTx, epc, proposal_tree, proposal_index, search_start_index,
          game_count, factory_index, pending, toProver, toEngine, wpc, wjob,
          files, proving_task, validate_pc,
          nChallenge, nProve, nRequest, nVisit, nTaken, proveArgs, seen>>

----------------------------------------------------------------------------
(* Bounds of the model *)

\* games the factory ever holds
MaxGames == 2
\* capacity of each direction of the channel (4096 in validate())
ChanCap == 1
\* transactions of other parties (challenges, proofs)
MaxOtherTx == 1
\* games a factory may hold before the validator is started
BacklogGames == 4

\* L1 heads a game may record
L1Heads == {7}

\* factory indices a game may name as its parent
ParentIndices == 0 .. (MaxGames - 1)

FactoryIndices == 0 .. ((IF BacklogGames > MaxGames THEN BacklogGames ELSE MaxGames) - 1)

\* no value held
None == [type |-> "none"]

\* last bytes of a receipt's journal
JournalBytes == {0, 255}

----------------------------------------------------------------------------
(* The op-node: optimism_outputAtBlock. The output root of block b is a     *)
(* fixed function of b.                                                     *)

output_at_block(output_block_number) == 10 + output_block_number

(* What the games answer. The game at factory index f claims L2 block f + 1 *)
(* and starts from block f; the root it claims, and the root it starts      *)
(* from, are the op-node's root of that block or the root of the next one.  *)

L2BlockNumber(f) == f + 1

StartingBlockNumber(f) == f

RootsFor(block) == {output_at_block(block), output_at_block(block + 1)}

\* eth_getBlockByNumber(n)["hash"] of the L2 node
BlockHash(n) == 100 + n

----------------------------------------------------------------------------
(* 0-based indexing of the Vec *)

At(tree, i) == tree[i + 1]

GameAt(f) == games[f + 1]

SetGame(f, g) == [games EXCEPT ![f + 1] = g]

Bump(count, k) == [count EXCEPT ![k] = @ + 1]

----------------------------------------------------------------------------
(* Values *)

\* the proxy address of the game at factory index f
GameAddress(f) == 1000 + f

\* the factory index of the game deployed at an address
GameOfAddress(a) == a - 1000

\* kind of a factory entry: another game type, a FaultProofSetup (extra data
\* of 0x20 bytes), a FaultProofGame (0x10 bytes), or any other length
Kinds == {"other", "setup", "game", "bad"}

\* a game as created: unchallenged, unproven, unresolved (no step of the model
\* resolves a game, so resolvedAt() stays 0)
NewGame(kind) ==
    [kind |-> kind, challenger |-> "none", proven |-> FALSE, resolved |-> FALSE]

NoCount == [f \in FactoryIndices |-> 0]

Unseen ==
    [inspected |-> FALSE, skipped |-> FALSE, challenged |-> FALSE, parent |-> None,
     start |-> None]

----------------------------------------------------------------------------
(* The decisions of handle_proposals *)

\* Correct, with a child never looking at its parent
Correct_IgnoreParent(local_output_root, output_root, parent_local_index, local_index, tree) ==
    local_output_root = output_root

\* Correct, with a setup taking the verdict of the entry stored before it
Correct_RootInherits(local_output_root, output_root, parent_local_index, local_index, tree) ==
    IF local_output_root # output_root
    THEN FALSE
    ELSE IF parent_local_index # local_index
         THEN At(tree, parent_local_index).correct
         ELSE local_index = 0 \/ At(tree, local_index - 1).correct

\* Correct, with a child taking its parent's verdict whatever the op-node says
Correct_ParentOnly(local_output_root, output_root, parent_local_index, local_index, tree) ==
    IF parent_local_index # local_index
    THEN At(tree, parent_local_index).correct
    ELSE local_output_root = output_root

\* the verdict on a proposal
Correct(local_output_root, output_root, parent_local_index, local_index, tree) ==
    IF local_output_root # output_root
    THEN FALSE
    ELSE IF parent_local_index # local_index
         THEN At(tree, parent_local_index).correct
         ELSE TRUE

\* ShouldChallenge, without the look at the challenged flag
ShouldChallenge_IgnoreFlag(correct, challenged) == ~correct

\* ShouldChallenge, without the look at the verdict
ShouldChallenge_AnyVerdict(correct, challenged) == ~challenged

\* challenge any unchallenged bad proposal
ShouldChallenge(correct, challenged) == ~correct /\ ~challenged

\* ShouldRequest, without the look at who challenged
ShouldRequest_AnyChallenger(challenged, proven, challenger) ==
    challenged /\ ~proven

\* enqueue proving for a bad proposal challenged by this validator
ShouldRequest(challenged, proven, challenger) ==
    challenged /\ ~proven /\ challenger = "me"

\* BadParentOutput, never skipping
BadParentOutput_Never(l2_output_root, local_output_root) == FALSE

\* proving is skipped while the game's starting output is not the op-node's
BadParentOutput(l2_output_root, local_output_root) ==
    l2_output_root # local_output_root

\* Lookup, with the first entry standing in for a parent that is not known
Lookup_OrFirst(index, parent_factory_index) ==
    IF parent_factory_index \in DOMAIN index
    THEN <<index[parent_factory_index]>>
    ELSE <<0>>

\* proposal_index.get(&parent_factory_index): Some(local index) is <<local
\* index>>, None is <<>>
Lookup(index, parent_factory_index) ==
    IF parent_factory_index \in DOMAIN index
    THEN <<index[parent_factory_index]>>
    ELSE <<>>

\* NextLocalIndex, counting from one
NextLocalIndex_OneBased(tree) == Len(tree) + 1

\* local_index = proposal_tree.len()
NextLocalIndex(tree) == Len(tree)

\* NextSearchStart, starting every pass from the first entry
NextSearchStart_Zero(count) == 0

\* NextSearchStart, with the registry's length at the end of the pass
NextSearchStart_Reread(count) == Len(games)

\* RevertIsError, with the receipt's status checked
RevertIsError_Always(at_send) == TRUE

\* a reverted transaction ends the loop only when send() meets the revert;
\* get_receipt() is Ok for a reverted transaction too
RevertIsError(at_send) == at_send

\* the watermark after a pass
NextSearchStart(count) == count

\* Unproven, whatever the status
Unproven_Always(proofStatus) == TRUE

\* only prove unproven games
Unproven(proofStatus) == proofStatus = 0

\* proofStatus() of a game
ProofStatus(g) == IF g.proven THEN 1 ELSE 0

\* is_fault_proof, true for the byte 1 alone
is_fault_proof_One(journal_last) == journal_last = 1

\* receipt.journal.bytes.last() > 0
is_fault_proof(journal_last) == journal_last > 0

\* the name of the receipt file of a claim
fpvm_proof_file_name(l1_head, l2_claim) ==
    [name |-> "fpvm", l1_head |-> l1_head, l2_claim |-> l2_claim]

\* proof_file_name, with one file per local index
proof_file_name_PerIndex(request) ==
    [name |-> "fpvm", l1_head |-> request.l1_head, l2_claim |-> request.l2_claim,
     local_index |-> request.local_index]

\* the file handle_proofs reads for a request
proof_file_name(request) == fpvm_proof_file_name(request.l1_head, request.l2_claim)

\* the file kailua-client writes: the receipt of the request's claim, under the
\* name made of its journal's l1_head and l2_claim
ClientFile(request, journal_last) ==
    LET proof_journal == [l1_head |-> request.l1_head,
                          l2_claim |-> request.l2_claim,
                          last |-> journal_last]
    IN  [path |-> fpvm_proof_file_name(proof_journal.l1_head, proof_journal.l2_claim),
         journal |-> proof_journal]

\* File::create and write_all: the file replaces the one of the same name
WriteFile(dir, file) == {old \in dir : old.path # file.path} \cup {file}

\* ProofMessage, tagged with the first local index
ProofMessage_FirstIndex(request, file) ==
    [type |-> "Proof", local_index |-> 0, tag |-> file.journal.last]

\* Message::Proof(local_index, receipt) for the receipt read from a file; tag
\* is the last byte of the receipt's journal
ProofMessage(request, file) ==
    [type |-> "Proof", local_index |-> request.local_index, tag |-> file.journal.last]

\* ProofRequest, tagged with the parent's local index
ProofRequest_ParentIndex(local_index, p, l1_head, l2_head, l2_output_root) ==
    [type |-> "Proposal",
     local_index |-> p.parent_local_index,
     l1_head |-> l1_head,
     l2_head |-> l2_head,
     l2_output_root |-> l2_output_root,
     l2_block_number |-> p.output_block_number,
     l2_claim |-> p.output_root]

\* Message::Proposal for the proposal p stored at local_index
ProofRequest(local_index, p, l1_head, l2_head, l2_output_root) ==
    [type |-> "Proposal",
     local_index |-> local_index,
     l1_head |-> l1_head,
     l2_head |-> l2_head,
     l2_output_root |-> l2_output_root,
     l2_block_number |-> p.output_block_number,
     l2_claim |-> p.output_root]

----------------------------------------------------------------------------
(* The state after construction: an empty factory, both loops at their top *)

Init ==
    /\ games = <<>>
    /\ otherTx = 0
    /\ epc = "loop"
    /\ proposal_tree = <<>>
    /\ proposal_index = <<>>
    /\ search_start_index = 0
    /\ game_count = 0
    /\ factory_index = 0
    /\ pending = None
    /\ toProver = <<>>
    /\ toEngine = <<>>
    /\ wpc = "recv"
    /\ wjob = None
    /\ files = {}
    /\ proving_task = "none"
    /\ validate_pc = "joining"
    /\ nChallenge = NoCount
    /\ nProve = NoCount
    /\ nRequest = NoCount
    /\ nVisit = NoCount
    /\ nTaken = NoCount
    /\ proveArgs = [f \in FactoryIndices |-> None]
    /\ seen = [f \in FactoryIndices |-> Unseen]

----------------------------------------------------------------------------
(* handle_proposals *)

\* handle_proofs has returned or panicked: its ends of the channel are dropped
WorkerEnded == wpc \in {"failed", "panicked"}

\* `continue`, or the end of the for loop's body
NextEntry ==
    /\ epc' = "scan"
    /\ factory_index' = factory_index + 1
    /\ pending' = None

\* StartPass, scanning the factory from its first entry in every pass
StartPass_Rescan ==
    /\ epc = "loop"
    /\ game_count' = Len(games)
    /\ factory_index' = 0
    /\ epc' = "scan"
    /\ UNCHANGED <<chainVars, proposal_tree, proposal_index, search_start_index,
                   pending, toProver, toEngine, workerVars, validate_pc, historyVars>>

\* the top of the validator loop: read gameCount() and start the for loop
StartPass ==
    /\ epc = "loop"
    /\ game_count' = Len(games)
    /\ factory_index' = search_start_index
    /\ epc' = "scan"
    /\ UNCHANGED <<chainVars, proposal_tree, proposal_index, search_start_index,
                   pending, toProver, toEngine, workerVars, validate_pc, historyVars>>

\* SkipOtherType, storing the entry as a proposal of its own
SkipOtherType_Stores ==
    /\ epc = "scan"
    /\ factory_index < game_count
    /\ GameAt(factory_index).kind = "other"
    /\ nVisit' = Bump(nVisit, factory_index)
    /\ proposal_index' =
           (factory_index :> NextLocalIndex(proposal_tree)) @@ proposal_index
    /\ proposal_tree' =
           Append(proposal_tree,
                  [factory_index |-> factory_index,
                   game_address |-> GameAddress(factory_index),
                   parent_local_index |-> NextLocalIndex(proposal_tree),
                   output_root |-> output_at_block(L2BlockNumber(factory_index)),
                   output_block_number |-> L2BlockNumber(factory_index),
                   challenged |-> FALSE,
                   proven |-> FALSE,
                   resolved |-> FALSE,
                   correct |-> TRUE])
    /\ NextEntry
    /\ UNCHANGED <<chainVars, search_start_index,
                   game_count, toProver, toEngine, workerVars, validate_pc, nChallenge, nProve,
                   nRequest, nTaken, proveArgs, seen>>

\* gameAtIndex: an entry of another game type is skipped
SkipOtherType ==
    /\ epc = "scan"
    /\ factory_index < game_count
    /\ GameAt(factory_index).kind = "other"
    /\ nVisit' = Bump(nVisit, factory_index)
    /\ NextEntry
    /\ UNCHANGED <<chainVars, proposal_tree, proposal_index, search_start_index,
                   game_count, toProver, toEngine, workerVars, validate_pc, nChallenge, nProve,
                   nRequest, nTaken, proveArgs, seen>>

\* BadExtraData, logging the entry and going on with the next one
BadExtraData_Skips ==
    /\ epc = "scan"
    /\ factory_index < game_count
    /\ GameAt(factory_index).kind = "bad"
    /\ nVisit' = Bump(nVisit, factory_index)
    /\ NextEntry
    /\ UNCHANGED <<chainVars, proposal_tree, proposal_index, search_start_index,
                   game_count, toProver, toEngine, workerVars, validate_pc,
                   nChallenge, nProve, nRequest, nTaken, proveArgs, seen>>

\* extraData of an unexpected length: bail
BadExtraData ==
    /\ epc = "scan"
    /\ factory_index < game_count
    /\ GameAt(factory_index).kind = "bad"
    /\ nVisit' = Bump(nVisit, factory_index)
    /\ epc' = "failed"
    /\ UNCHANGED <<chainVars, proposal_tree, proposal_index, search_start_index,
                   game_count, factory_index, pending, toProver, toEngine,
                   workerVars, validate_pc, nChallenge, nProve, nRequest, nTaken, proveArgs,
                   seen>>

\* a FaultProofGame whose parent is not in proposal_index: SKIPPED
SkipUnknownParent ==
    /\ epc = "scan"
    /\ factory_index < game_count
    /\ GameAt(factory_index).kind = "game"
    /\ \E parent_factory_index \in ParentIndices :
          /\ Lookup(proposal_index, parent_factory_index) = <<>>
          /\ seen' = [seen EXCEPT ![factory_index].skipped = TRUE,
                                  ![factory_index].parent = parent_factory_index]
    /\ nVisit' = Bump(nVisit, factory_index)
    /\ NextEntry
    /\ UNCHANGED <<chainVars, proposal_tree, proposal_index, search_start_index,
                   game_count, toProver, toEngine, workerVars, validate_pc, nChallenge, nProve,
                   nRequest, nTaken, proveArgs>>

\* update local tree view, then enqueue proving for a bad proposal challenged
\* by this validator. p is the proposal, g2 the chain and s2 the record of the
\* inspection once the challenge (if any) is done.
PushAndRequest(p, g2, s2) ==
    LET local_index == NextLocalIndex(proposal_tree)
        f == p.factory_index
    IN  /\ games' = g2
        /\ proposal_index' = (f :> local_index) @@ proposal_index
        /\ proposal_tree' = Append(proposal_tree, p)
        /\ IF ShouldRequest(p.challenged, p.proven, g2[f + 1].challenger)
           THEN \E l1_head \in L1Heads, l2_head_number \in {StartingBlockNumber(f)},
                   l2_output_root \in RootsFor(StartingBlockNumber(f)),
                   rpc_ok \in BOOLEAN :
                  IF ~rpc_ok
                  THEN \* one of the calls for the Kona invocation fails; the
                       \* proposal has been moved into the tree by then
                       /\ epc' = "failed"
                       /\ seen' = s2
                       /\ pending' = None
                       /\ UNCHANGED factory_index
                  ELSE /\ seen' = [s2 EXCEPT ![f].start =
                                     [root |-> l2_output_root, block |-> l2_head_number]]
                       /\ IF BadParentOutput(l2_output_root, output_at_block(l2_head_number))
                          THEN NextEntry
                          ELSE /\ epc' = "send"
                               /\ pending' = ProofRequest(local_index, p, l1_head,
                                                          BlockHash(l2_head_number),
                                                          l2_output_root)
                               /\ UNCHANGED factory_index
           ELSE /\ seen' = s2
                /\ NextEntry

\* one entry of this validator's game type: read it, decide correctness, and
\* either go on to challenge it or store it
Inspect ==
    /\ epc = "scan"
    /\ factory_index < game_count
    /\ GameAt(factory_index).kind \in {"setup", "game"}
    /\ \E output_block_number \in {L2BlockNumber(factory_index)},
          output_root \in RootsFor(L2BlockNumber(factory_index)),
          parent_factory_index \in ParentIndices :
          LET game == GameAt(factory_index)
              local_index == NextLocalIndex(proposal_tree)
              is_game == game.kind = "game"
              parent_local_index ==
                  IF is_game
                  THEN Head(Lookup(proposal_index, parent_factory_index))
                  ELSE local_index
              challenged == IF is_game THEN game.challenger # "none" ELSE FALSE
              proven == IF is_game THEN game.proven ELSE FALSE
              local_output_root == output_at_block(output_block_number)
              correct == Correct(local_output_root, output_root, parent_local_index,
                                 local_index, proposal_tree)
              p == [factory_index |-> factory_index,
                    game_address |-> GameAddress(factory_index),
                    parent_local_index |-> parent_local_index,
                    output_root |-> output_root,
                    output_block_number |-> output_block_number,
                    challenged |-> challenged,
                    proven |-> proven,
                    resolved |-> game.resolved,
                    correct |-> correct]
              s2 == [seen EXCEPT ![factory_index] =
                       [inspected |-> TRUE,
                        skipped |-> seen[factory_index].skipped,
                        challenged |-> game.challenger # "none",
                        parent |-> IF is_game THEN parent_factory_index ELSE None,
                        start |-> None]]
          IN  /\ is_game => Lookup(proposal_index, parent_factory_index) # <<>>
              /\ ~is_game => parent_factory_index = 0
              /\ nVisit' = Bump(nVisit, factory_index)
              /\ IF ShouldChallenge(correct, challenged)
                 THEN /\ epc' = "challenge"
                      /\ pending' = [type |-> "proposal", p |-> p]
                      /\ seen' = s2
                      /\ UNCHANGED <<games, proposal_tree, proposal_index, factory_index>>
                 ELSE PushAndRequest(p, games, s2)
    /\ UNCHANGED <<otherTx, search_start_index, game_count, toProver, toEngine,
                   workerVars, validate_pc, nChallenge, nProve, nRequest, nTaken, proveArgs>>

\* Challenge, with the proposal stored before the transaction is sent
Challenge_StoresFirst ==
    /\ epc = "challenge"
    /\ LET p == pending.p
           f == p.factory_index
       IN  /\ nChallenge' = Bump(nChallenge, f)
           /\ IF GameAt(f).challenger = "none"
              THEN PushAndRequest([p EXCEPT !.challenged = TRUE],
                                  SetGame(f, [GameAt(f) EXCEPT !.challenger = "me"]),
                                  seen)
              ELSE \E at_send \in BOOLEAN :
                      IF RevertIsError(at_send)
                      THEN /\ epc' = "failed"
                           /\ proposal_index' =
                                  (f :> NextLocalIndex(proposal_tree)) @@ proposal_index
                           /\ proposal_tree' = Append(proposal_tree, p)
                           /\ UNCHANGED <<games, factory_index, pending, seen>>
                      ELSE PushAndRequest([p EXCEPT !.challenged = TRUE], games, seen)
    /\ UNCHANGED <<otherTx, search_start_index, game_count, toProver, toEngine,
                   workerVars, validate_pc, nProve, nRequest, nVisit, nTaken, proveArgs>>

\* challenge().send().get_receipt(): the game takes the challenge unless it
\* is already challenged, and then the transaction reverts. A revert met when
\* the transaction is sent is an Err; a revert met when it is mined comes back
\* as a receipt, which get_receipt() hands over as Ok and the loop does not
\* look at.
Challenge ==
    /\ epc = "challenge"
    /\ LET p == pending.p
           f == p.factory_index
       IN  /\ nChallenge' = Bump(nChallenge, f)
           /\ IF GameAt(f).challenger = "none"
              THEN PushAndRequest([p EXCEPT !.challenged = TRUE],
                                  SetGame(f, [GameAt(f) EXCEPT !.challenger = "me"]),
                                  seen)
              ELSE \E at_send \in BOOLEAN :
                      IF RevertIsError(at_send)
                      THEN /\ epc' = "failed"
                           /\ UNCHANGED <<games, proposal_tree, proposal_index,
                                          factory_index, pending, seen>>
                      ELSE PushAndRequest([p EXCEPT !.challenged = TRUE], games, seen)
    /\ UNCHANGED <<otherTx, search_start_index, game_count, toProver, toEngine,
                   workerVars, validate_pc, nProve, nRequest, nVisit, nTaken, proveArgs>>

\* channel.sender.send(Message::Proposal): suspended while the queue is full
SendRequest ==
    /\ epc = "send"
    /\ ~WorkerEnded
    /\ Len(toProver) < ChanCap
    /\ toProver' = Append(toProver, pending)
    /\ nRequest' = Bump(nRequest, pending.local_index)
    /\ NextEntry
    /\ UNCHANGED <<chainVars, proposal_tree, proposal_index, search_start_index,
                   game_count, toEngine, workerVars, validate_pc, nChallenge, nProve, nVisit,
                   nTaken, proveArgs, seen>>

\* send() fails once handle_proofs has ended: the `?` ends the loop
SendClosed ==
    /\ epc = "send"
    /\ WorkerEnded
    /\ epc' = "failed"
    /\ UNCHANGED <<chainVars, proposal_tree, proposal_index, search_start_index,
                   game_count, factory_index, pending, toProver, toEngine,
                   workerVars, validate_pc, historyVars>>

\* EndPass, leaving the for loop at any entry
EndPass_Early ==
    /\ epc = "scan"
    /\ search_start_index' = NextSearchStart(game_count)
    /\ epc' = "drain"
    /\ UNCHANGED <<chainVars, proposal_tree, proposal_index, game_count,
                   factory_index, pending, toProver, toEngine, workerVars,
                   validate_pc, historyVars>>

\* the for loop is over: advance the watermark, go on to publish proofs
EndPass ==
    /\ epc = "scan"
    /\ factory_index >= game_count
    /\ search_start_index' = NextSearchStart(game_count)
    /\ epc' = "drain"
    /\ UNCHANGED <<chainVars, proposal_tree, proposal_index, game_count,
                   factory_index, pending, toProver, toEngine, workerVars, validate_pc,
                   historyVars>>

\* Sleep, once handle_proofs has nothing left to prove
Sleep_AwaitsProofs ==
    /\ epc = "drain"
    /\ toEngine = <<>>
    /\ toProver = <<>>
    /\ wpc # "prove"
    /\ epc' = "loop"
    /\ UNCHANGED <<chainVars, proposal_tree, proposal_index, search_start_index,
                   game_count, factory_index, pending, toProver, toEngine,
                   workerVars, validate_pc, historyVars>>

\* no computed proof is queued: sleep, then loop
Sleep ==
    /\ epc = "drain"
    /\ toEngine = <<>>
    /\ epc' = "loop"
    /\ UNCHANGED <<chainVars, proposal_tree, proposal_index, search_start_index,
                   game_count, factory_index, pending, toProver, toEngine,
                   workerVars, validate_pc, historyVars>>

\* TakeProof, not waiting for the receipt of the prove transaction
TakeProof_NoWait ==
    /\ epc \in {"drain", "prove"}
    /\ toEngine # <<>>
    /\ Head(toEngine).type = "Proof"
    /\ LET msg == Head(toEngine)
           proposal == At(proposal_tree, msg.local_index)
           game == GameAt(GameOfAddress(proposal.game_address))
       IN  /\ toEngine' = Tail(toEngine)
           /\ nTaken' = Bump(nTaken, msg.local_index)
           /\ IF Unproven(ProofStatus(game))
              THEN /\ epc' = "prove"
                   /\ pending' = [type |-> "proof",
                                  local_index |-> msg.local_index,
                                  journal_last |-> msg.tag,
                                  is_fault_proof |-> is_fault_proof(msg.tag)]
              ELSE \* Skipping proof submission for already proven game
                   /\ UNCHANGED <<epc, pending>>
    /\ UNCHANGED <<chainVars, proposal_tree, proposal_index, search_start_index,
                   game_count, factory_index, toProver, workerVars, validate_pc, nChallenge,
                   nProve, nRequest, nVisit, proveArgs, seen>>

\* take one computed proof off the queue and read the game's proofStatus()
TakeProof ==
    /\ epc = "drain"
    /\ toEngine # <<>>
    /\ Head(toEngine).type = "Proof"
    /\ LET msg == Head(toEngine)
           proposal == At(proposal_tree, msg.local_index)
           game == GameAt(GameOfAddress(proposal.game_address))
       IN  /\ toEngine' = Tail(toEngine)
           /\ nTaken' = Bump(nTaken, msg.local_index)
           /\ IF Unproven(ProofStatus(game))
              THEN /\ epc' = "prove"
                   /\ pending' = [type |-> "proof",
                                  local_index |-> msg.local_index,
                                  journal_last |-> msg.tag,
                                  is_fault_proof |-> is_fault_proof(msg.tag)]
              ELSE \* Skipping proof submission for already proven game
                   /\ UNCHANGED <<epc, pending>>
    /\ UNCHANGED <<chainVars, proposal_tree, proposal_index, search_start_index,
                   game_count, factory_index, toProver, workerVars, validate_pc, nChallenge,
                   nProve, nRequest, nVisit, proveArgs, seen>>

\* recv() gives a message that is not Message::Proof:
\* bail!("Unexpected message type.") with the message in hand
TakeUnexpected ==
    /\ epc = "drain"
    /\ toEngine # <<>>
    /\ Head(toEngine).type # "Proof"
    /\ toEngine' = Tail(toEngine)
    /\ pending' = Head(toEngine)
    /\ epc' = "failed"
    /\ UNCHANGED <<chainVars, proposal_tree, proposal_index, search_start_index,
                   game_count, factory_index, toProver, workerVars, validate_pc,
                   historyVars>>

\* Prove, sending the transaction again after its receipt
Prove_Resubmit ==
    /\ epc = "prove"
    /\ LET proposal == At(proposal_tree, pending.local_index)
           f == GameOfAddress(proposal.game_address)
       IN  /\ nProve' = Bump(nProve, f)
           /\ proveArgs' = [proveArgs EXCEPT ![f] =
                               [is_fault_proof |-> pending.is_fault_proof,
                                journal_last |-> pending.journal_last]]
           /\ IF ~GameAt(f).proven
              THEN /\ games' = SetGame(f, [GameAt(f) EXCEPT !.proven = TRUE])
                   /\ UNCHANGED <<epc, pending>>
              ELSE \E at_send \in BOOLEAN :
                      IF RevertIsError(at_send)
                      THEN /\ epc' = "failed"
                           /\ UNCHANGED <<games, pending>>
                      ELSE /\ epc' = "drain"
                           /\ pending' = None
                           /\ UNCHANGED games
    /\ UNCHANGED <<otherTx, proposal_tree, proposal_index, search_start_index,
                   game_count, factory_index, toProver, toEngine, workerVars, validate_pc,
                   nChallenge, nRequest, nVisit, nTaken, seen>>

\* Prove, writing the proof into the stored proposal
Prove_MarksProven ==
    /\ epc = "prove"
    /\ LET proposal == At(proposal_tree, pending.local_index)
           f == GameOfAddress(proposal.game_address)
       IN  /\ nProve' = Bump(nProve, f)
           /\ proveArgs' = [proveArgs EXCEPT ![f] =
                               [is_fault_proof |-> pending.is_fault_proof,
                                journal_last |-> pending.journal_last]]
           /\ IF ~GameAt(f).proven
              THEN /\ games' = SetGame(f, [GameAt(f) EXCEPT !.proven = TRUE])
                   /\ proposal_tree' = [proposal_tree EXCEPT
                                           ![pending.local_index + 1].proven = TRUE]
                   /\ epc' = "drain"
                   /\ pending' = None
              ELSE \E at_send \in BOOLEAN :
                      IF RevertIsError(at_send)
                      THEN /\ epc' = "failed"
                           /\ UNCHANGED <<games, pending, proposal_tree>>
                      ELSE /\ epc' = "drain"
                           /\ pending' = None
                           /\ UNCHANGED <<games, proposal_tree>>
    /\ UNCHANGED <<otherTx, proposal_index, search_start_index,
                   game_count, factory_index, toProver, toEngine, workerVars,
                   validate_pc, nChallenge, nRequest, nVisit, nTaken, seen>>

\* prove().send().get_receipt(): the game takes the proof unless it is
\* already proven, and then the transaction reverts
Prove ==
    /\ epc = "prove"
    /\ LET proposal == At(proposal_tree, pending.local_index)
           f == GameOfAddress(proposal.game_address)
       IN  /\ nProve' = Bump(nProve, f)
           /\ proveArgs' = [proveArgs EXCEPT ![f] =
                               [is_fault_proof |-> pending.is_fault_proof,
                                journal_last |-> pending.journal_last]]
           /\ IF ~GameAt(f).proven
              THEN /\ games' = SetGame(f, [GameAt(f) EXCEPT !.proven = TRUE])
                   /\ epc' = "drain"
                   /\ pending' = None
              ELSE \E at_send \in BOOLEAN :
                      IF RevertIsError(at_send)
                      THEN /\ epc' = "failed"
                           /\ UNCHANGED <<games, pending>>
                      ELSE /\ epc' = "drain"
                           /\ pending' = None
                           /\ UNCHANGED games
    /\ UNCHANGED <<otherTx, proposal_tree, proposal_index, search_start_index,
                   game_count, factory_index, toProver, toEngine, workerVars, validate_pc,
                   nChallenge, nRequest, nVisit, nTaken, seen>>

\* a call to a node fails, or a transaction cannot be sent: the `?` ends the loop
EngineError ==
    /\ epc \in {"loop", "scan", "drain", "challenge", "prove"}
    /\ epc' = "failed"
    /\ UNCHANGED <<chainVars, proposal_tree, proposal_index, search_start_index,
                   game_count, factory_index, pending, toProver, toEngine,
                   workerVars, validate_pc, historyVars>>

----------------------------------------------------------------------------
(* handle_proofs *)

\* WorkerRecv, taking the next request while a proof waits to be sent
WorkerRecv_Overlapping ==
    /\ wpc \in {"recv", "send"}
    /\ toProver # <<>>
    /\ Head(toProver).type = "Proposal"
    /\ wjob' = Head(toProver)
    /\ toProver' = Tail(toProver)
    /\ wpc' = "prove"
    /\ UNCHANGED <<chainVars, engineVars, toEngine, files, proving_task, validate_pc,
                   historyVars>>

\* channel.receiver.recv(): suspended while the queue is empty
WorkerRecv ==
    /\ wpc = "recv"
    /\ toProver # <<>>
    /\ Head(toProver).type = "Proposal"
    /\ wjob' = Head(toProver)
    /\ toProver' = Tail(toProver)
    /\ wpc' = "prove"
    /\ UNCHANGED <<chainVars, engineVars, toEngine, files, proving_task, validate_pc,
                   historyVars>>

\* WorkerRecvUnexpected, dropping the message and receiving again
WorkerRecvUnexpected_Ignores ==
    /\ wpc = "recv"
    /\ toProver # <<>>
    /\ Head(toProver).type # "Proposal"
    /\ toProver' = Tail(toProver)
    /\ UNCHANGED <<chainVars, engineVars, toEngine, workerVars, validate_pc, historyVars>>

\* recv() gives a message that is not Message::Proposal:
\* bail!("Unexpected message type.") before anything is run
WorkerRecvUnexpected ==
    /\ wpc = "recv"
    /\ toProver # <<>>
    /\ Head(toProver).type # "Proposal"
    /\ toProver' = Tail(toProver)
    /\ wpc' = "failed"
    /\ UNCHANGED <<chainVars, engineVars, toEngine, wjob, files, proving_task,
                   validate_pc, historyVars>>

\* recv() gives None once handle_proposals has ended and the queue is empty:
\* expect("proof receiver channel closed") panics
WorkerRecvClosed ==
    /\ wpc = "recv"
    /\ toProver = <<>>
    /\ epc = "failed"
    /\ wpc' = "panicked"
    /\ UNCHANGED <<chainVars, engineVars, toProver, toEngine, wjob, files,
                   proving_task, validate_pc, historyVars>>

\* the working directory once kailua-host has run for the request: a run that
\* succeeds leaves the receipt where kailua-client writes it, a run that fails
\* leaves nothing new
AfterRun(request, success, journal_last) ==
    IF success
    THEN WriteFile(files, ClientFile(request, journal_last))
    ELSE files

\* proving_task.success()
ExitStatus(success) == IF success THEN "success" ELSE "failure"

\* ReadReceipt, giving up when kailua-host has failed
ReadReceipt_OnSuccessOnly(success) ==
    /\ success
    /\ wpc = "prove"
    /\ proving_task' = ExitStatus(success)
    /\ \E journal_last \in JournalBytes :
          LET files2 == AfterRun(wjob, success, journal_last)
          IN  /\ files' = files2
              /\ \E file \in files2 :
                    /\ file.path = proof_file_name(wjob)
                    /\ wjob' = ProofMessage(wjob, file)
    /\ wpc' = "send"
    /\ UNCHANGED <<chainVars, engineVars, toProver, toEngine, validate_pc, historyVars>>

\* kailua-host has run, with or without success, and the receipt file is read
\* and decoded: the last byte of the receipt's journal is the tag
ReadReceipt(success) ==
    /\ wpc = "prove"
    /\ proving_task' = ExitStatus(success)
    /\ \E journal_last \in JournalBytes :
          LET files2 == AfterRun(wjob, success, journal_last)
          IN  /\ files' = files2
              /\ \E file \in files2 :
                    /\ file.path = proof_file_name(wjob)
                    /\ wjob' = ProofMessage(wjob, file)
    /\ wpc' = "send"
    /\ UNCHANGED <<chainVars, engineVars, toProver, toEngine, validate_pc, historyVars>>

WorkerProve == \E success \in BOOLEAN : ReadReceipt(success)

\* spawning kailua-host fails, or the receipt file cannot be opened or decoded
WorkerError ==
    /\ wpc = "prove"
    /\ \E success \in BOOLEAN, journal_last \in JournalBytes :
          /\ files' = AfterRun(wjob, success, journal_last)
          /\ proving_task' = ExitStatus(success)
    /\ wpc' = "failed"
    /\ UNCHANGED <<chainVars, engineVars, toProver, toEngine, wjob, validate_pc,
                   historyVars>>

\* channel.sender.send(Message::Proof): suspended while the queue is full
WorkerSend ==
    /\ wpc = "send"
    /\ epc # "failed"
    /\ Len(toEngine) < ChanCap
    /\ toEngine' = Append(toEngine, wjob)
    /\ wjob' = None
    /\ proving_task' = "none"
    /\ wpc' = "recv"
    /\ UNCHANGED <<chainVars, engineVars, toProver, files, validate_pc, historyVars>>

\* send() fails once handle_proposals has ended: the `?` ends the loop
WorkerSendClosed ==
    /\ wpc = "send"
    /\ epc = "failed"
    /\ wpc' = "failed"
    /\ UNCHANGED <<chainVars, engineVars, toProver, toEngine, wjob, files,
                   proving_task, validate_pc, historyVars>>

----------------------------------------------------------------------------
(* validate *)

\* try_join! is over: a task has panicked, or both tasks have returned
Joined(engine, worker) ==
    \/ worker = "panicked"
    \/ engine = "failed" /\ worker = "failed"

\* validate() returns the error
Return ==
    /\ validate_pc = "joining"
    /\ Joined(epc, wpc)
    /\ validate_pc' = "returned"
    /\ UNCHANGED <<chainVars, engineVars, toProver, toEngine, workerVars, historyVars>>

----------------------------------------------------------------------------
(* The chain: what other parties do *)

\* someone creates a game through the factory
CreateGame ==
    /\ Len(games) < MaxGames
    /\ \E kind \in Kinds : games' = Append(games, NewGame(kind))
    /\ UNCHANGED <<otherTx, engineVars, toProver, toEngine, workerVars, validate_pc, historyVars>>

\* another party challenges a FaultProofGame (a FaultProofSetup is unchallenged
\* by definition: handle_proposals never reads its challengedAt())
OtherChallenge ==
    /\ otherTx < MaxOtherTx
    /\ \E f \in 0 .. (Len(games) - 1) :
          /\ GameAt(f).kind = "game"
          /\ GameAt(f).challenger = "none"
          /\ games' = SetGame(f, [GameAt(f) EXCEPT !.challenger = "other"])
    /\ otherTx' = otherTx + 1
    /\ UNCHANGED <<engineVars, toProver, toEngine, workerVars, validate_pc, historyVars>>

\* another party proves a challenged game
OtherProve ==
    /\ otherTx < MaxOtherTx
    /\ \E f \in 0 .. (Len(games) - 1) :
          /\ GameAt(f).challenger # "none"
          /\ ~GameAt(f).proven
          /\ games' = SetGame(f, [GameAt(f) EXCEPT !.proven = TRUE])
    /\ otherTx' = otherTx + 1
    /\ UNCHANGED <<engineVars, toProver, toEngine, workerVars, validate_pc, historyVars>>

----------------------------------------------------------------------------

Engine ==
    \/ StartPass
    \/ SkipOtherType
    \/ BadExtraData
    \/ SkipUnknownParent
    \/ Inspect
    \/ Challenge
    \/ SendRequest
    \/ SendClosed
    \/ EndPass
    \/ Sleep
    \/ TakeProof
    \/ Prove
    \/ EngineError

Worker ==
    \/ WorkerRecv
    \/ WorkerRecvClosed
    \/ WorkerProve
    \/ WorkerError
    \/ WorkerSend
    \/ WorkerSendClosed

Chain ==
    \/ CreateGame
    \/ OtherChallenge
    \/ OtherProve

Next == Engine \/ Worker \/ Chain \/ Return

Spec == Init /\ [][Next]_vars

\* Message has two variants and both ends of the channel carry Message: a
\* Message::Proof that handle_proofs may be handed, and a Message::Proposal
\* that handle_proposals may be handed
StrayProof == [type |-> "Proof", local_index |-> 0, tag |-> 0]

StrayProposal ==
    ProofRequest(0, [output_block_number |-> 1, output_root |-> 11], 7,
                 BlockHash(0), 10)

\* the state after construction, with either queue holding nothing or one
\* message of the variant its receiver does not expect
InitAnyMessage ==
    /\ games = <<>>
    /\ otherTx = 0
    /\ epc = "loop"
    /\ proposal_tree = <<>>
    /\ proposal_index = <<>>
    /\ search_start_index = 0
    /\ game_count = 0
    /\ factory_index = 0
    /\ pending = None
    /\ toProver \in {<<>>, <<StrayProof>>}
    /\ toEngine \in {<<>>, <<StrayProposal>>}
    /\ wpc = "recv"
    /\ wjob = None
    /\ files = {}
    /\ proving_task = "none"
    /\ validate_pc = "joining"
    /\ nChallenge = NoCount
    /\ nProve = NoCount
    /\ nRequest = NoCount
    /\ nVisit = NoCount
    /\ nTaken = NoCount
    /\ proveArgs = [f \in FactoryIndices |-> None]
    /\ seen = [f \in FactoryIndices |-> Unseen]

NextAnyMessage == Next \/ WorkerRecvUnexpected \/ TakeUnexpected

SpecAnyMessage == InitAnyMessage /\ [][NextAnyMessage]_vars

\* a factory that holds a FaultProofSetup and the FaultProofGames made since
Backlog ==
    [f \in 1 .. BacklogGames |-> NewGame(IF f = 1 THEN "setup" ELSE "game")]

\* the state after construction, the validator being started on an empty
\* factory or on one that holds a backlog of games; no other party sends a
\* transaction while the backlog is worked off
InitBacklog ==
    /\ games \in {<<>>, Backlog}
    /\ otherTx = (IF games = <<>> THEN 0 ELSE MaxOtherTx)
    /\ epc = "loop"
    /\ proposal_tree = <<>>
    /\ proposal_index = <<>>
    /\ search_start_index = 0
    /\ game_count = 0
    /\ factory_index = 0
    /\ pending = None
    /\ toProver = <<>>
    /\ toEngine = <<>>
    /\ wpc = "recv"
    /\ wjob = None
    /\ files = {}
    /\ proving_task = "none"
    /\ validate_pc = "joining"
    /\ nChallenge = NoCount
    /\ nProve = NoCount
    /\ nRequest = NoCount
    /\ nVisit = NoCount
    /\ nTaken = NoCount
    /\ proveArgs = [f \in FactoryIndices |-> None]
    /\ seen = [f \in FactoryIndices |-> Unseen]

SpecBacklog == InitBacklog /\ [][Next]_vars

\* both tasks are spawned on the runtime, which polls a task that can run, and
\* validate() is polled when a task it joins ends
FairSpec ==
    /\ Init
    /\ [][Next]_vars
    /\ WF_vars(Engine)
    /\ WF_vars(Worker)
    /\ WF_vars(Return)

----------------------------------------------------------------------------
(* Properties *)

LocalIndices == 0 .. (Len(proposal_tree) - 1)

\* the op-node's root at the proposal's block is the root the proposal claims
OracleAgrees(p) == output_at_block(p.output_block_number) = p.output_root

IsChild(i) == At(proposal_tree, i).parent_local_index # i

Parent(i) == At(proposal_tree, At(proposal_tree, i).parent_local_index)

\* the local indices on the parent chain of i, from i up to its root
RECURSIVE Lineage(_)
Lineage(i) ==
    IF IsChild(i)
    THEN {i} \cup Lineage(At(proposal_tree, i).parent_local_index)
    ELSE {i}

\* a Message::Proposal for local index i is sent, or held by the suspended send
Requested(i) ==
    \/ nRequest[i] > 0
    \/ epc = "send" /\ pending.local_index = i

\* the tree with every verdict turned over
Flipped(tree) == [j \in DOMAIN tree |-> [tree[j] EXCEPT !.correct = ~@]]

\* C1: a child whose claimed root is the op-node's root at its block has its
\* parent's stored verdict; a child whose claimed root differs is incorrect,
\* whatever its parent's verdict.
C1_ChildCorrectness ==
    \A i \in LocalIndices :
        IsChild(i) =>
            IF OracleAgrees(At(proposal_tree, i))
            THEN At(proposal_tree, i).correct = Parent(i).correct
            ELSE At(proposal_tree, i).correct = FALSE

C1_Witness ==
    \E i \in LocalIndices :
        /\ IsChild(i)
        /\ ~OracleAgrees(At(proposal_tree, i))
        /\ Parent(i).correct
        /\ ~At(proposal_tree, i).correct

\* C2: a setup proposal is correct exactly when the op-node's root at its
\* block is the root it claims, and the rule gives the same verdict on it
\* for any content of the tree.
C2_RootSelfEvident ==
    \A i \in LocalIndices :
        ~IsChild(i) =>
            LET p == At(proposal_tree, i)
            IN  /\ p.correct = OracleAgrees(p)
                /\ \A tree \in {proposal_tree, Flipped(proposal_tree)} :
                       Correct(output_at_block(p.output_block_number), p.output_root,
                               i, i, tree) = p.correct

C2_Witness ==
    \E i, j \in LocalIndices :
        /\ j < i
        /\ ~IsChild(i)
        /\ ~At(proposal_tree, j).correct
        /\ At(proposal_tree, i).correct

C4_ChallengeOnce ==
    \A f \in FactoryIndices :
        /\ nChallenge[f] <= 1
        /\ nChallenge[f] > 0 => seen[f].inspected /\ ~seen[f].challenged

C4_Witness ==
    \E f, g \in FactoryIndices :
        /\ nChallenge[f] = 1
        /\ search_start_index > f
        /\ epc = "scan"
        /\ g \in DOMAIN proposal_index
        /\ seen[g].challenged
        /\ ~At(proposal_tree, proposal_index[g]).correct
        /\ nChallenge[g] = 0

\* C5: a challenge transaction is sent for a proposal exactly when its verdict
\* is incorrect and its challenged flag was not set when it was inspected; no
\* correct proposal is challenged; a challenged proposal is stored as such.
C5_ChallengeDecision ==
    /\ \A i \in LocalIndices :
           LET p == At(proposal_tree, i)
               f == p.factory_index
           IN  /\ nChallenge[f] = 1 <=> (~p.correct /\ ~seen[f].challenged)
               /\ nChallenge[f] = 0 <=> (p.correct \/ seen[f].challenged)
               /\ nChallenge[f] > 0 => p.challenged /\ GameAt(f).challenger # "none"
               /\ p.challenged <=> (seen[f].challenged \/ ~p.correct)
    /\ \A f \in FactoryIndices :
           (nChallenge[f] > 0 /\ f \notin DOMAIN proposal_index) =>
               /\ epc = "failed"
               /\ pending.p.factory_index = f
               /\ ~pending.p.correct
               /\ ~seen[f].challenged

C5_Witness ==
    \E i, j \in LocalIndices :
        /\ At(proposal_tree, i).correct
        /\ nChallenge[At(proposal_tree, i).factory_index] = 0
        /\ ~At(proposal_tree, j).correct
        /\ nChallenge[At(proposal_tree, j).factory_index] = 1
        /\ At(proposal_tree, j).challenged

\* C6: at most one prove transaction is sent per proposal.
C6_ProveOnce ==
    \A f \in FactoryIndices : nProve[f] <= 1

C6_Witness ==
    \E f \in FactoryIndices :
        /\ nProve[f] = 1
        /\ GameAt(f).proven
        /\ epc = "scan"

\* C7: taking a computed proof for a game whose proof status is no longer
\* "unproven" sends no prove transaction, changes neither the tree, the index
\* map nor the watermark, and leaves the loop draining.
C7_ProvenIsNoOp ==
    [][(/\ epc = "drain"
        /\ toEngine # <<>>
        /\ toEngine' = Tail(toEngine)
        /\ GameAt(At(proposal_tree, Head(toEngine).local_index).factory_index).proven)
       => (/\ nProve' = nProve
           /\ games' = games
           /\ proposal_tree' = proposal_tree
           /\ proposal_index' = proposal_index
           /\ search_start_index' = search_start_index
           /\ epc' = "drain")]_vars

C7_Witness ==
    \E i \in LocalIndices :
        /\ nRequest[i] = 1
        /\ toProver = <<>>
        /\ toEngine = <<>>
        /\ wpc = "recv"
        /\ epc = "drain"
        /\ nProve[At(proposal_tree, i).factory_index] = 0
        /\ GameAt(At(proposal_tree, i).factory_index).proven

\* C8: at most one Message::Proposal is sent per local index.
C8_RequestOnce ==
    \A i \in FactoryIndices :
        /\ nRequest[i] <= 1
        /\ (epc = "send" /\ pending.local_index = i) => nRequest[i] = 0

C8_Witness ==
    \E i \in LocalIndices :
        /\ nRequest[i] = 1
        /\ search_start_index > At(proposal_tree, i).factory_index
        /\ epc = "scan"

\* C9: a Message::Proposal is sent only for a proposal stored as challenged
\* and not proven whose game records this validator as its challenger.
C9_RequestOnlyOwnChallenge ==
    \A i \in FactoryIndices :
        Requested(i) =>
            /\ i \in LocalIndices
            /\ At(proposal_tree, i).challenged
            /\ ~At(proposal_tree, i).proven
            /\ GameAt(At(proposal_tree, i).factory_index).challenger = "me"

C9_Witness ==
    \E i, j \in LocalIndices :
        /\ nRequest[i] = 1
        /\ At(proposal_tree, j).challenged
        /\ ~At(proposal_tree, j).proven
        /\ GameAt(At(proposal_tree, j).factory_index).challenger = "other"
        /\ nRequest[j] = 0
        /\ factory_index > At(proposal_tree, j).factory_index

\* C10: when a game's starting root is not the op-node's root at its starting
\* block, no Message::Proposal is sent for it and the scan goes on to the next
\* factory index; one is sent only when the two roots are equal.
C10_DeferredProving ==
    \A i \in LocalIndices :
        LET f == At(proposal_tree, i).factory_index
            start == seen[f].start
        IN  /\ Requested(i) =>
                   /\ start # None
                   /\ start.root = output_at_block(start.block)
            /\ (start # None /\ start.root # output_at_block(start.block)) =>
                   /\ ~Requested(i)
                   /\ factory_index > f

C10_Witness ==
    \E i \in LocalIndices :
        LET f == At(proposal_tree, i).factory_index
        IN  /\ seen[f].start # None
            /\ seen[f].start.root # output_at_block(seen[f].start.block)
            /\ nRequest[i] = 0
            /\ epc = "scan"
            /\ factory_index = f + 1

\* C11: the is_fault_proof argument of every prove() transaction, and of every
\* Message::Proof taken for proving, is true iff the last byte of the receipt's
\* journal is not zero, whatever verdict is stored for the proposal.
C11_ProofClassification ==
    /\ epc = "prove" => (pending.is_fault_proof <=> pending.journal_last # 0)
    /\ \A f \in FactoryIndices :
           proveArgs[f] # None =>
               (proveArgs[f].is_fault_proof <=> proveArgs[f].journal_last # 0)

\* two proposals stored as incorrect are proven, one with a fault proof whose
\* journal ends in a byte above 1, one with a validity proof
C11_Witness ==
    \E i, j \in LocalIndices :
        LET f == At(proposal_tree, i).factory_index
            g == At(proposal_tree, j).factory_index
        IN  /\ ~At(proposal_tree, i).correct
            /\ ~At(proposal_tree, j).correct
            /\ nProve[f] = 1
            /\ nProve[g] = 1
            /\ proveArgs[f] = [is_fault_proof |-> TRUE, journal_last |-> 255]
            /\ proveArgs[g] = [is_fault_proof |-> FALSE, journal_last |-> 0]

\* C12: every stored proposal has parent_local_index <= its local index, with
\* equality exactly for a FaultProofSetup; the parent of a FaultProofGame is
\* stored before it, and is the entry whose factory index the game's
\* parentGameIndex() gave.
C12_ParentOrdering ==
    \A j \in LocalIndices :
        LET B == At(proposal_tree, j)
            i == B.parent_local_index
        IN  /\ i <= j
            /\ i = j <=> GameAt(B.factory_index).kind = "setup"
            /\ GameAt(B.factory_index).kind = "game" =>
                   /\ i < j
                   /\ i \in LocalIndices
                   /\ At(proposal_tree, i).factory_index = seen[B.factory_index].parent
                   /\ At(proposal_tree, i).factory_index < B.factory_index

\* a FaultProofGame is stored after the FaultProofSetup it names as its parent
C12_Witness ==
    \E j \in LocalIndices :
        LET B == At(proposal_tree, j)
        IN  /\ GameAt(B.factory_index).kind = "game"
            /\ B.parent_local_index < j
            /\ GameAt(At(proposal_tree, B.parent_local_index).factory_index).kind = "setup"
            /\ seen[B.factory_index].parent = At(proposal_tree, B.parent_local_index).factory_index

\* the Message::Proof values that exist: queued for the Engine, or held by the
\* Worker's suspended send
ProofsInFlight ==
    {toEngine[k] : k \in DOMAIN toEngine} \cup (IF wpc = "send" THEN {wjob} ELSE {})

\* C13: every Message::Proof carries a local index for which a
\* Message::Proposal was sent, so an index below the length of the tree; and
\* the Message::Proof received for an index never outnumber the
\* Message::Proposal sent for it.
C13_RequestResponseMatching ==
    /\ \A m \in ProofsInFlight :
           /\ m.local_index \in LocalIndices
           /\ nRequest[m.local_index] > 0
    /\ \A i \in FactoryIndices :
           /\ nTaken[i] <= nRequest[i]
           /\ nTaken[i] > 0 => i \in LocalIndices
    /\ epc = "prove" => pending.local_index \in LocalIndices

\* the Engine has taken the proof of the second stored proposal, the only one
\* it asked a proof for
C13_Witness ==
    /\ Len(proposal_tree) = 2
    /\ nRequest[0] = 0
    /\ nRequest[1] = 1
    /\ nTaken[1] = 1
    /\ nTaken[0] = 0

\* C14: once handle_proposals or handle_proofs has ended with an error,
\* validate() returns, whatever the other task is doing.
C14_FailureIsFatal ==
    (epc = "failed" \/ WorkerEnded) ~> (validate_pc = "returned")

\* the half of C14 that holds: once handle_proposals has ended, handle_proofs
\* finds the channel closed, and validate() returns
C14_EngineFailureIsFatal ==
    (epc = "failed") ~> (validate_pc = "returned")

\* handle_proofs has returned an error while handle_proposals sleeps between
\* two passes with no proof to request
C14_WorkerFailedEngineRuns ==
    /\ wpc = "failed"
    /\ epc = "loop"
    /\ validate_pc = "joining"
    /\ search_start_index = Len(games)

\* the Message::Proposal values that exist: held by the Engine's suspended
\* send, queued for the Worker, or in the Worker's hands
RequestsInFlight ==
    {toProver[k] : k \in DOMAIN toProver}
        \cup (IF wpc = "prove" THEN {wjob} ELSE {})
        \cup (IF epc = "send" THEN {pending} ELSE {})

C16_ScanBeforeDrain ==
    [][(nTaken' # nTaken \/ nProve' # nProve) =>
           /\ epc \in {"drain", "prove"}
           /\ factory_index >= game_count
           /\ search_start_index = game_count
           /\ \A f \in FactoryIndices : f < game_count => nVisit[f] >= 1]_vars

\* the proof of the first proposal waits in the queue, not taken, while a later
\* pass has an entry left to inspect
C16_Witness ==
    /\ epc = "scan"
    /\ factory_index < game_count
    /\ search_start_index > 0
    /\ toEngine # <<>>
    /\ nTaken[Head(toEngine).local_index] = 0

\* C17: the proposal at position k of the tree has local index k in
\* proposal_index and in the messages sent for it; the local indices are
\* exactly 0 .. len-1, whatever entries were skipped; and two stored proposals
\* are in the order of their factory indices.
C17_DenseLocalIndices ==
    /\ \A k \in LocalIndices :
           /\ At(proposal_tree, k).factory_index \in DOMAIN proposal_index
           /\ proposal_index[At(proposal_tree, k).factory_index] = k
    /\ \A a, b \in LocalIndices :
           a < b <=> At(proposal_tree, a).factory_index < At(proposal_tree, b).factory_index
    /\ \A r \in RequestsInFlight :
           /\ r.local_index \in LocalIndices
           /\ At(proposal_tree, r.local_index).output_root = r.l2_claim
           /\ At(proposal_tree, r.local_index).output_block_number = r.l2_block_number

\* the first factory entry was skipped and the second is stored at local index
\* 0, with a proof asked for it
C17_Witness ==
    /\ Len(proposal_tree) = 1
    /\ nVisit[0] = 1
    /\ At(proposal_tree, 0).factory_index = 1
    /\ proposal_index[1] = 0
    /\ nRequest[0] = 1

\* the values of a map
Range(map) == {map[k] : k \in DOMAIN map}

\* C18: proposal_index is injective, its keys are the factory indices of the
\* stored proposals, its values are 0 .. len-1, the proposal stored at the
\* value of a key has that key as its factory index, and no step gives a key
\* another value.
C18_IndexMapConsistency ==
    /\ [](/\ \A f, g \in DOMAIN proposal_index :
                 proposal_index[f] = proposal_index[g] => f = g
          /\ DOMAIN proposal_index =
                 {At(proposal_tree, k).factory_index : k \in LocalIndices}
          /\ Range(proposal_index) = LocalIndices
          /\ \A f \in DOMAIN proposal_index :
                 At(proposal_tree, proposal_index[f]).factory_index = f)
    /\ [][\A f \in DOMAIN proposal_index :
              /\ f \in DOMAIN proposal_index'
              /\ proposal_index'[f] = proposal_index[f]]_vars

\* two proposals are mapped, and the key of the first kept its value when the
\* second was added in a later pass
C18_Witness ==
    /\ DOMAIN proposal_index = {0, 1}
    /\ proposal_index[0] = 0
    /\ proposal_index[1] = 1
    /\ epc = "loop"

\* C19: every step leaves the tree as it is or appends one proposal at its
\* end; a stored proposal is never removed, moved or changed, not even its
\* proven flag when the Engine proves its game.
C19_AppendOnlyTree ==
    [][\/ proposal_tree' = proposal_tree
       \/ /\ Len(proposal_tree') = Len(proposal_tree) + 1
          /\ SubSeq(proposal_tree', 1, Len(proposal_tree)) = proposal_tree]_vars

\* the Engine has proven the game of the first stored proposal, a second
\* proposal is stored after it, and the first is still stored as unproven
C19_Witness ==
    /\ Len(proposal_tree) = 2
    /\ nProve[At(proposal_tree, 0).factory_index] = 1
    /\ GameAt(At(proposal_tree, 0).factory_index).proven
    /\ ~At(proposal_tree, 0).proven
    /\ ~At(proposal_tree, 1).correct

\* C20: search_start_index never decreases; once a pass is over it is the
\* gameCount() read at the top of that pass; the for loop's body runs at most
\* once for a factory index, and has run for every index below the watermark
\* and below the for loop's variable, so an index registered during a pass is
\* left for the next pass and none is jumped over.
C20_Watermark ==
    /\ [][search_start_index' >= search_start_index]_vars
    /\ [](epc \in {"drain", "prove", "loop"} => search_start_index = game_count)
    /\ [](search_start_index <= game_count /\ game_count <= Len(games))
    /\ [](\A f \in FactoryIndices :
              /\ nVisit[f] <= 1
              /\ f < search_start_index => nVisit[f] = 1
              /\ (epc \in {"scan", "challenge", "send"} /\ f < factory_index) =>
                     nVisit[f] = 1
              /\ nVisit[f] = 1 => f < game_count)

\* a pass is over and the watermark is the count it read; the registry has
\* grown since, and the new index waits, not inspected, for the next pass
C20_Witness ==
    /\ epc = "drain"
    /\ search_start_index > 0
    /\ search_start_index = game_count
    /\ Len(games) > search_start_index
    /\ nVisit[search_start_index] = 0

\* C21: an entry of another game type is never stored, mapped, inspected,
\* challenged or proven, and the step that meets it changes nothing but the
\* for loop's variable: no proposal, no key, no transaction, no message.
C21_GameTypeFilter ==
    /\ [](\A f \in 0 .. (Len(games) - 1) :
              GameAt(f).kind = "other" =>
                  /\ f \notin DOMAIN proposal_index
                  /\ \A k \in LocalIndices : At(proposal_tree, k).factory_index # f
                  /\ ~seen[f].inspected
                  /\ seen[f].start = None
                  /\ nChallenge[f] = 0
                  /\ nProve[f] = 0)
    /\ [][(/\ epc = "scan"
           /\ factory_index < game_count
           /\ GameAt(factory_index).kind = "other"
           /\ nVisit' # nVisit) =>
              /\ epc' = "scan"
              /\ factory_index' = factory_index + 1
              /\ UNCHANGED <<proposal_tree, proposal_index, search_start_index,
                             toProver, toEngine, games, nChallenge, nProve,
                             nRequest, seen>>]_vars

\* the first entry is of another game type; the pass went over it and stored
\* the second entry at local index 0
C21_Witness ==
    /\ Len(games) = 2
    /\ GameAt(0).kind = "other"
    /\ nVisit[0] = 1
    /\ search_start_index = 2
    /\ Len(proposal_tree) = 1
    /\ proposal_index = (1 :> 0)

\* C22: a FaultProofGame whose parentGameIndex() is not a key of proposal_index
\* when the scan meets it is never stored, mapped, challenged or given a
\* Message::Proposal, in no later state either, also once its parent is stored;
\* the step that skips it goes on with the next factory index.
C22_UnknownParentSkipped ==
    /\ [](\A f \in FactoryIndices :
              seen[f].skipped =>
                  /\ f \notin DOMAIN proposal_index
                  /\ \A k \in LocalIndices : At(proposal_tree, k).factory_index # f
                  /\ ~seen[f].inspected
                  /\ nChallenge[f] = 0
                  /\ nProve[f] = 0
                  /\ \A r \in RequestsInFlight :
                         At(proposal_tree, r.local_index).factory_index # f)
    /\ [][\A f \in FactoryIndices :
              (~seen[f].skipped /\ seen'[f].skipped) =>
                  /\ epc = "scan"
                  /\ epc' = "scan"
                  /\ factory_index = f
                  /\ factory_index' = f + 1
                  /\ seen'[f].parent \notin DOMAIN proposal_index
                  /\ UNCHANGED <<proposal_tree, proposal_index, games, toProver,
                                 nChallenge, nRequest>>]_vars

\* the first entry named the second as its parent and was skipped; the second
\* is stored since, and the first is still in neither the tree nor the map
C22_Witness ==
    /\ seen[0].skipped
    /\ seen[0].parent = 1
    /\ proposal_index = (1 :> 0)
    /\ At(proposal_tree, 0).factory_index = 1
    /\ epc = "loop"

\* the scan is at an entry of this validator's game type whose extraData has
\* neither the length of a FaultProofSetup nor that of a FaultProofGame, and
\* the step runs the for loop's body for it
MeetsBadExtraData ==
    /\ epc = "scan"
    /\ factory_index < game_count
    /\ GameAt(factory_index).kind = "bad"
    /\ nVisit' # nVisit

\* C23 as stated: the entry with the unrecognized extraData is skipped and the
\* loop goes on with the next factory index.
C23_BadExtraDataSkipped ==
    [][MeetsBadExtraData =>
           /\ epc' = "scan"
           /\ factory_index' = factory_index + 1]_vars

\* C23, amended: the entry with the unrecognized extraData ends
\* handle_proposals with an error; it is not stored, nothing is sent for it,
\* and no later entry is inspected.
C23_BadExtraDataFatal ==
    /\ [][MeetsBadExtraData =>
              /\ epc' = "failed"
              /\ UNCHANGED <<proposal_tree, proposal_index, search_start_index,
                             factory_index, games, toProver, nChallenge, nRequest>>]_vars
    /\ [](\A f \in 0 .. (Len(games) - 1) :
              (GameAt(f).kind = "bad" /\ nVisit[f] > 0) =>
                  /\ epc = "failed"
                  /\ f \notin DOMAIN proposal_index
                  /\ search_start_index <= f
                  /\ \A g \in FactoryIndices : g > f => nVisit[g] = 0)

\* the first entry is stored; the second has an unrecognized extraData and
\* has ended the loop
C23_Witness ==
    /\ Len(games) = 2
    /\ Len(proposal_tree) = 1
    /\ GameAt(1).kind = "bad"
    /\ nVisit[1] = 1
    /\ epc = "failed"
    /\ factory_index = 1

\* C24: when the challenge transaction fails, handle_proposals ends with an
\* error and the proposal in hand is in neither the tree nor the map, the
\* watermark has not moved and no Message::Proposal is sent for it.
C24_ChallengeFailureIsClean ==
    /\ [][(epc = "challenge" /\ epc' = "failed" /\ pending' = pending) =>
              /\ UNCHANGED <<proposal_tree, proposal_index, search_start_index,
                             toProver, nRequest>>
              /\ pending.p.factory_index \notin DOMAIN proposal_index']_vars
    /\ []((epc = "failed" /\ pending.type = "proposal") =>
              LET f == pending.p.factory_index
              IN  /\ f \notin DOMAIN proposal_index
                  /\ \A k \in LocalIndices : At(proposal_tree, k).factory_index # f
                  /\ search_start_index <= f
                  /\ \A r \in RequestsInFlight :
                         At(proposal_tree, r.local_index).factory_index # f)

\* the second entry's challenge was rejected because another party had
\* challenged it since it was inspected: the loop has ended, the tree holds the
\* first entry alone and the watermark is where the pass found it
C24_Witness ==
    /\ epc = "failed"
    /\ pending.type = "proposal"
    /\ pending.p.factory_index = 1
    /\ nChallenge[1] = 1
    /\ GameAt(1).challenger = "other"
    /\ Len(proposal_tree) = 1
    /\ DOMAIN proposal_index = {0}
    /\ search_start_index <= 1

\* C25: a challenge sent to a game that another party has challenged since the
\* flag was read, and a proof sent to a game that another party has proven
\* since its status was read, revert, and the revert ends handle_proposals:
\* the loop does not go on to the next entry or the next message.
C25_RaceIsFatal ==
    [][/\ (/\ epc = "challenge"
           /\ nChallenge' # nChallenge
           /\ GameAt(pending.p.factory_index).challenger # "none") => epc' = "failed"
       /\ (/\ epc = "prove"
           /\ nProve' # nProve
           /\ GameAt(GameOfAddress(At(proposal_tree, pending.local_index).game_address)).proven)
              => epc' = "failed"]_vars

\* the challenge of the second entry was mined after another party's and
\* reverted; the entry is stored as challenged by this validator and the loop
\* is running
C25_RevertTakenForSuccess ==
    /\ epc # "failed"
    /\ nChallenge[1] = 1
    /\ GameAt(1).challenger = "other"
    /\ 1 \in DOMAIN proposal_index
    /\ At(proposal_tree, proposal_index[1]).challenged

\* C26: when handle_proofs dequeues a message that is not Message::Proposal it
\* ends with an error and no kailua-host run is made for it; when
\* handle_proposals dequeues a message that is not Message::Proof it ends with
\* an error and no transaction is sent for it.
C26_UnexpectedVariantIsFatal ==
    [][/\ (/\ toProver # <<>>
           /\ Head(toProver).type # "Proposal"
           /\ toProver' = Tail(toProver))
              => /\ wpc' = "failed"
                 /\ UNCHANGED <<files, wjob, toEngine>>
       /\ (/\ toEngine # <<>>
           /\ Head(toEngine).type # "Proof"
           /\ toEngine' = Tail(toEngine))
              => /\ epc' = "failed"
                 /\ UNCHANGED <<games, nChallenge, nProve, proveArgs, proposal_tree,
                                proposal_index, toProver>>]_vars

\* handle_proofs has taken a Message::Proof and ended with no job and no file;
\* handle_proposals, with an empty factory, has taken a Message::Proposal for
\* a proposal it never stored and ended
C26_Witness ==
    /\ wpc = "failed"
    /\ wjob = None
    /\ files = {}
    /\ toProver = <<>>
    /\ epc = "failed"
    /\ pending = StrayProposal
    /\ proposal_tree = <<>>
    /\ toEngine = <<>>

\* the receipt files at the path handle_proofs reads for the request in hand
ArtifactsFor(request) == {file \in files : file.path = proof_file_name(request)}

\* C27: after a kailua-host run that exits with a failure handle_proofs still
\* reads the receipt at the expected path: with a receipt there it may go on
\* to send Message::Proof for the request's local index, and the message it
\* prepares is made of that receipt; with none there it ends with an error
\* and nothing is sent.
C27_FailedRunStillReads ==
    /\ []((wpc = "prove" /\ ArtifactsFor(wjob) # {}) => ENABLED ReadReceipt(FALSE))
    /\ [][(wpc = "prove" /\ proving_task' = "failure") =>
             /\ files' = files
             /\ wpc' \in {"send", "failed"}
             /\ ArtifactsFor(wjob) = {} => wpc' = "failed"
             /\ wpc' = "send" =>
                   \E file \in ArtifactsFor(wjob) : wjob' = ProofMessage(wjob, file)
             /\ wpc' = "failed" => UNCHANGED <<toEngine, wjob>>]_vars
    /\ []((wpc = "send" /\ proving_task = "failure" /\ Len(toEngine) < ChanCap
               /\ epc # "failed") => ENABLED WorkerSend)

\* the proof of the second proposal is ready to be sent although the run for
\* it failed: the receipt read is the one the first proposal's run left
C27_Witness ==
    /\ wpc = "send"
    /\ proving_task = "failure"
    /\ wjob.type = "Proof"
    /\ wjob.local_index = 1

\* the messages between the Engine's send and the Engine's receive, oldest
\* first: proofs sent, the job handle_proofs holds, requests not yet taken
Pipeline ==
    toEngine \o (IF wjob = None THEN <<>> ELSE <<wjob>>) \o toProver

InPipeline(k) == Cardinality({j \in DOMAIN Pipeline : Pipeline[j].local_index = k})

\* C28: handle_proofs holds one job at a time: it takes a request only with
\* no job in hand and sends the proof of the job in hand before it takes the
\* next; every request sent is in the pipeline once, as itself or as its
\* proof, until the Engine has taken its proof once; and the pipeline is in
\* the order in which the requests were sent, ahead of nothing already taken.
C28_WorkerSequential ==
    /\ [](/\ wpc = "recv" => wjob = None
          /\ wpc = "prove" => wjob.type = "Proposal"
          /\ wpc = "send" => wjob.type = "Proof")
    /\ [](\A k \in FactoryIndices : InPipeline(k) + nTaken[k] = nRequest[k])
    /\ [](\A k \in FactoryIndices : nRequest[k] <= 1)
    /\ [](\A i, j \in DOMAIN Pipeline :
             i < j => Pipeline[i].local_index < Pipeline[j].local_index)
    /\ [](\A k \in FactoryIndices, j \in DOMAIN Pipeline :
             nTaken[k] > 0 => k < Pipeline[j].local_index)
    /\ [][(toProver # <<>> /\ toProver' = Tail(toProver)) =>
             /\ wpc = "recv" /\ wjob = None
             /\ wpc' = "prove" /\ wjob' = Head(toProver)]_vars
    /\ [][Len(toEngine') > Len(toEngine) =>
             /\ wpc = "send"
             /\ toEngine' = Append(toEngine, wjob)
             /\ wpc' = "recv" /\ wjob' = None]_vars
    /\ [][(wpc = "prove" /\ wpc' = "send") =>
             wjob'.local_index = wjob.local_index]_vars

\* the proof of the first request waits in the return queue, the proof of the
\* second is in hand and about to be sent
C28_Witness ==
    /\ wpc = "send"
    /\ wjob.local_index = 1
    /\ Len(toEngine) = 1
    /\ toEngine[1].local_index = 0
    /\ nRequest[0] = 1
    /\ nRequest[1] = 1

\* a challenge() or prove() transaction is sent in the step
TransactionSent == nChallenge' # nChallenge \/ nProve' # nProve

\* the count has grown by one, at one index
OneMore(count) == \E f \in FactoryIndices : count' = Bump(count, f)

\* handle_proposals is at a challenge() or prove() transaction
TxPending == epc \in {"challenge", "prove"}

\* C29: a transaction is sent only by a step of handle_proposals at a
\* transaction, one per step and complete when the step is over; no step of
\* handle_proofs sends one; and while handle_proposals is at a transaction no
\* entry is inspected, no proof is dequeued and no request is sent.
C29_TransactionsSerialized ==
    /\ [][TransactionSent =>
             /\ TxPending /\ ~TxPending'
             /\ \/ OneMore(nChallenge) /\ nProve' = nProve
                \/ OneMore(nProve) /\ nChallenge' = nChallenge
             /\ UNCHANGED <<workerVars, toProver, toEngine, nVisit, nTaken, nRequest>>]_vars
    /\ [][TxPending =>
             /\ UNCHANGED <<nVisit, nTaken, nRequest>>
             /\ Len(toEngine') >= Len(toEngine)]_vars
    /\ [][workerVars' # workerVars =>
             UNCHANGED <<nChallenge, nProve, games, epc>>]_vars

\* handle_proposals is at the prove transaction of the first proposal, after
\* the challenges of both, while handle_proofs holds the proof of the second
C29_Witness ==
    /\ epc = "prove"
    /\ pending.local_index = 0
    /\ nChallenge[0] = 1
    /\ nChallenge[1] = 1
    /\ wpc = "send"
    /\ wjob.local_index = 1

\* C30: in the drain a message is dequeued only from a return queue that is
\* not empty; with the queue empty handle_proposals is never suspended, its
\* next step leaves the drain without a proof or a transaction, and it can
\* always go on to sleep and scan again, whatever handle_proofs is doing.
C30_NonBlockingDrain ==
    /\ []((epc = "drain" /\ toEngine = <<>>) => ENABLED Sleep)
    /\ []((epc = "drain" /\ toEngine # <<>>) => ~ENABLED Sleep)
    /\ [][Len(toEngine') < Len(toEngine) =>
             /\ epc = "drain"
             /\ toEngine # <<>>
             /\ toEngine' = Tail(toEngine)]_vars
    /\ [][(epc = "drain" /\ toEngine = <<>> /\ epc' # epc) =>
             /\ epc' \in {"loop", "failed"}
             /\ UNCHANGED <<nTaken, nProve, games, pending, toEngine>>]_vars
    /\ [][(epc = "loop" /\ epc' # epc) => epc' \in {"scan", "failed"}]_vars

\* handle_proposals has left the drain and sleeps while handle_proofs is still
\* proving the one request sent
C30_Witness ==
    /\ epc = "loop"
    /\ toEngine = <<>>
    /\ wpc = "prove"
    /\ nRequest[0] = 1
    /\ nTaken[0] = 0
    /\ search_start_index > 0

\* handle_proposals is suspended in send() on a full request queue
EngineSendSuspended == epc = "send" /\ Len(toProver) >= ChanCap

\* handle_proofs is suspended in send() on a full return queue
WorkerSendSuspended == wpc = "send" /\ Len(toEngine) >= ChanCap

\* C31: in no reachable state is handle_proposals suspended sending a
\* Message::Proposal on a full request queue while handle_proofs is suspended
\* sending a Message::Proof on a full return queue.
C31_NoMutualSendDeadlock == ~(EngineSendSuspended /\ WorkerSendSuspended)

\* both loops are suspended in send() within the first pass over a backlog:
\* one proof is queued, one is in hand, one request is queued, one is in hand,
\* and no step of either loop is enabled
C31_MutualSendDeadlock ==
    /\ EngineSendSuspended
    /\ WorkerSendSuspended
    /\ search_start_index = 0
    /\ ~ENABLED Engine
    /\ ~ENABLED Worker

\* SpecBacklog under the scheduling of FairSpec
FairSpecBacklog ==
    /\ InitBacklog
    /\ [][Next]_vars
    /\ WF_vars(Engine)
    /\ WF_vars(Worker)
    /\ WF_vars(Return)

\* a loop has ended with an error: a subprocess, a file, a call to a node or a
\* transaction has failed, or an entry could not be read
LoopEnded == epc = "failed" \/ WorkerEnded

\* C32: under fair scheduling of both loops, every Message::Proposal sent is
\* followed by handle_proposals taking the Message::Proof of the same local
\* index (and then proving or skipping), unless a loop ends with an error.
C32_RequestsAnswered ==
    \A k \in FactoryIndices : (nRequest[k] > 0) ~> (nTaken[k] > 0 \/ LoopEnded)

\* the request for the third proposal is queued and can never be taken: both
\* loops are suspended in send() and neither has ended
C32_RequestNeverAnswered ==
    /\ nRequest[2] = 1
    /\ nTaken[2] = 0
    /\ toProver # <<>>
    /\ Head(toProver).local_index = 2
    /\ ~LoopEnded
    /\ ~ENABLED Next

\* the proposal stored last is the one of the for loop's current entry
InItsIteration(k) ==
    /\ k = Len(proposal_tree) - 1
    /\ At(proposal_tree, k).factory_index = factory_index

\* C33: a challenge is sent for an entry only before it is stored, in the
\* iteration that stores it; a Message::Proposal for local index k is sent
\* only for the proposal stored last, in the iteration that stored it; an
\* entry that is stored is never inspected again; so a stored proposal whose
\* iteration is over without a request never gets one.
C33_DecidedAtDiscovery ==
    /\ [][\A f \in FactoryIndices :
             nChallenge'[f] # nChallenge[f] =>
                /\ f \notin DOMAIN proposal_index
                /\ f = factory_index
                /\ (f \in DOMAIN proposal_index' =>
                       proposal_index'[f] = Len(proposal_tree') - 1)]_vars
    /\ [][\A k \in FactoryIndices :
             nRequest'[k] # nRequest[k] =>
                /\ epc = "send"
                /\ pending.local_index = k
                /\ InItsIteration(k)]_vars
    /\ [][\A f \in FactoryIndices :
             nVisit'[f] # nVisit[f] => f \notin DOMAIN proposal_index]_vars
    /\ [][\A f \in FactoryIndices :
             (f \in DOMAIN proposal_index /\ factory_index > f) =>
                /\ nChallenge'[f] = nChallenge[f]
                /\ nRequest'[proposal_index[f]] = nRequest[proposal_index[f]]
                /\ nVisit'[f] = nVisit[f]]_vars
    /\ [](\A f \in FactoryIndices :
             f \in DOMAIN proposal_index => factory_index >= f)

\* a later pass is under way, and the second proposal, challenged by this
\* validator in an earlier pass and deferred because the root it starts from
\* is not the op-node's, has had no request
C33_Witness ==
    /\ epc = "scan"
    /\ 1 \in DOMAIN proposal_index
    /\ search_start_index > 1
    /\ factory_index > 1
    /\ At(proposal_tree, proposal_index[1]).challenged
    /\ GameAt(1).challenger = "me"
    /\ seen[1].start # None
    /\ BadParentOutput(seen[1].start.root, output_at_block(seen[1].start.block))
    /\ nRequest[proposal_index[1]] = 0
    /\ nVisit[1] = 1

\* C34: the receipt handle_proofs sends for a request is one written by the
\* kailua-host run made for that request: the run has succeeded and the file
\* read is the file that run writes, never a file an earlier run left under
\* the same name.
C34_ReceiptProvenance ==
    [][(wpc = "prove" /\ wpc' = "send") =>
          /\ proving_task' = "success"
          /\ \E journal_last \in JournalBytes :
                /\ ClientFile(wjob, journal_last) \in files'
                /\ wjob' = ProofMessage(wjob, ClientFile(wjob, journal_last))]_vars

\* the run for the second proposal has failed and the proof in hand for it
\* is the receipt the run for the first proposal left: the two proposals claim
\* the same root at different blocks, and the first proof has been taken
C34_StaleReceiptReturned ==
    /\ wpc = "send"
    /\ proving_task = "failure"
    /\ wjob.local_index = 1
    /\ nTaken[0] = 1
    /\ Len(proposal_tree) = 2
    /\ At(proposal_tree, 0).output_root = At(proposal_tree, 1).output_root
    /\ At(proposal_tree, 0).output_block_number # At(proposal_tree, 1).output_block_number
    /\ \E file \in files : wjob.tag = file.journal.last

====
